---- MODULE Spec2Model ----
(***************************************************************************)
(* Model of matgendb/creator.py: VaspToDbTaskDrone.assimilate and          *)
(* VaspToDbTaskDrone._insert_doc against a Mongo database made of the      *)
(* task collection, the "counter" collection and the gridfs store dos_fs.  *)
(*                                                                         *)
(* A document is a function from field names to values; a field that a     *)
(* Python dict does not have is a name outside the function's DOMAIN.      *)
(***************************************************************************)
EXTENDS Integers, Sequences, FiniteSets, TLC

VARIABLES coll, counter, dos_fs, now, ret, last, autoids, procs

vars == <<coll, counter, dos_fs, now, ret, last, autoids, procs>>

(* ------------------------------ bounds -------------------------------- *)

\* number of assimilate calls made one after the other
MaxCalls == 4

\* number of _insert_doc calls each concurrent drone process makes
MaxProcCalls == 1

(* --------------------------- input domains ---------------------------- *)

\* paths handed to assimilate; "a" and "a/" name the same directory
Paths == {"a", "a/", "b"}

\* what get_task_doc finds under a path
DirKinds == {"none", "killed", "standard", "aflow"}

EmptyDict == [k \in {} |-> 0]

\* the directories on disk at the time of a call: the path given, the layout
\* found there, whether the vasprun holds valid dos data, and whether the
\* transformations file carries tags
Dirs ==
    {[path |-> "a", kind |-> "killed", has_dos |-> FALSE, new_tags |-> TRUE],
     [path |-> "a/", kind |-> "standard", has_dos |-> TRUE, new_tags |-> FALSE],
     [path |-> "b", kind |-> "aflow", has_dos |-> TRUE, new_tags |-> FALSE],
     [path |-> "b", kind |-> "none", has_dos |-> FALSE, new_tags |-> FALSE]}

\* the drones in use: the constructor arguments that _insert_doc and
\* get_task_doc read
Drones ==
    {[simulate |-> FALSE, update_duplicates |-> TRUE, parse_dos |-> FALSE,
      additional_fields |-> [author |-> "me"]],
     [simulate |-> FALSE, update_duplicates |-> FALSE, parse_dos |-> TRUE,
      additional_fields |-> EmptyDict],
     [simulate |-> FALSE, update_duplicates |-> TRUE, parse_dos |-> TRUE,
      additional_fields |-> [task_id |-> 7]],
     [simulate |-> FALSE, update_duplicates |-> FALSE, parse_dos |-> FALSE,
      additional_fields |-> [task_id |-> 0]],
     [simulate |-> TRUE, update_duplicates |-> TRUE, parse_dos |-> FALSE,
      additional_fields |-> EmptyDict]}

Procs == {1, 2}

(* ------------------------------ values -------------------------------- *)

\* Python's None as a find_one result or as a built document
None == [none |-> TRUE]

RetTaskId(t) == [kind |-> "task_id", v |-> t]

RetDoc(d) == [kind |-> "doc", d |-> d]

RetNone == [kind |-> "None"]

RetFalse == [kind |-> "False"]

\* d[k] = v on a dict
SetField(d, k, v) == (k :> v) @@ d

\* del d[k]
DelField(d, k) == [f \in (DOMAIN d) \ {k} |-> d[f]]

(* --------------------------- get_task_doc ----------------------------- *)

Hostname == "host"

abspath(p) ==
    CASE p = "a" -> "/cwd/a"
      [] p = "a/" -> "/cwd/a"
      [] p = "b" -> "/cwd/b"

\* host name and absolute path together make the dir_name
get_uri(mydir) == <<Hostname, abspath(mydir)>>

process_vasprun(dirname, taskname, parse_dos, has_dos) ==
    LET d == [dir_name |-> abspath(dirname),
              task |-> IF taskname \in {"relax1", "relax2"}
                       THEN <<"aflow", taskname>>
                       ELSE <<"standard", "standard">>]
    IN  IF parse_dos /\ has_dos THEN SetField(d, "dos", <<"dos", taskname>>)
        ELSE d

generate_doc(dirname, tasknames, parse_dos, additional_fields, has_dos) ==
    LET calcs == [i \in 1..Len(tasknames) |->
                    process_vasprun(dirname, tasknames[i], parse_dos, has_dos)]
    IN  [dir_name |-> abspath(dirname),
         schema_version |-> "2.0.0",
         calculations |-> calcs,
         state |-> "successful",
         last_updated |-> now] @@ additional_fields

process_killed_run(dirname) ==
    [dir_name |-> abspath(dirname), state |-> "killed", oszicar |-> EmptyDict]

post_process(mydir, d, new_tags) ==
    LET d1 == SetField(d, "dir_name", get_uri(mydir))
    IN  IF new_tags THEN SetField(d1, "tags", "t") ELSE d1

get_task_doc(path, kind, parse_dos, additional_fields, has_dos, new_tags) ==
    CASE kind = "standard" ->
            post_process(path, generate_doc(path, <<"standard">>, parse_dos,
                                            additional_fields, has_dos),
                         new_tags)
      [] kind = "aflow" ->
            post_process(path, generate_doc(path, <<"relax1", "relax2">>,
                                            parse_dos, additional_fields,
                                            has_dos),
                         new_tags)
      [] kind = "killed" ->
            post_process(path, process_killed_run(path), new_tags)
      [] OTHER -> None

(* ------------------------- database operations ------------------------ *)

\* positions of the documents of collection c whose dir_name is dn
Matches(c, dn) == {i \in 1..Len(c) : c[i].dir_name = dn}

Min(S) == CHOOSE x \in S : \A y \in S : x <= y

\* coll.find_one({'dir_name': dn}, fields=['dir_name', 'task_id'])
FindOne(c, dn) ==
    IF Matches(c, dn) = {} THEN None
    ELSE LET doc == c[Min(Matches(c, dn))]
         IN  [f \in (DOMAIN doc) \cap {"_id", "dir_name", "task_id"} |-> doc[f]]

\* coll.insert(d, safe=True): the server gives the document a fresh _id
CollInsert(c, d) == Append(c, SetField(d, "_id", Len(c) + 1))

\* a write that stores d as a document of its own (coll.save(d) of a
\* document without _id) instead of changing the stored one
CollUpdateSaves(c, dn, d) == CollInsert(c, d)

\* coll.update({'dir_name': dn}, {'$set': d}): first match only, no upsert
CollUpdate(c, dn, d) ==
    IF Matches(c, dn) = {} THEN c
    ELSE [c EXCEPT ![Min(Matches(c, dn))] = d @@ @]

\* db.counter.find({"_id": "taskid"}).count()
CounterCount(cnt) == Cardinality({x \in cnt : x._id = "taskid"})

FirstTaskId == 1

\* db.counter.insert({"_id": "taskid", "c": 1})
CounterInsert(cnt) == cnt \cup {[_id |-> "taskid", c |-> FirstTaskId]}

\* find_and_modify with new=True: the document after the increment
FindAndModifyReturnsNew(cnt) ==
    LET old == CHOOSE x \in cnt : x._id = "taskid"
    IN  [old |-> [old EXCEPT !.c = @ + 1],
         cnt |-> (cnt \ {old}) \cup {[old EXCEPT !.c = @ + 1]}]

\* find_and_modify(query={'_id': "taskid"}, update={'$inc': {'c': 1}}):
\* returns the document as it was before the increment
FindAndModify(cnt) ==
    LET old == CHOOSE x \in cnt : x._id = "taskid"
    IN  [old |-> old,
         cnt |-> (cnt \ {old}) \cup {[old EXCEPT !.c = @ + 1]}]

\* fs = gridfs.GridFS(db, 'dos_fs'); fs.put(json.dumps(calc['dos'])) for
\* every calculation, in order; the calculation keeps the file's id only
RECURSIVE PutDos(_, _, _)
PutDos(calcs, i, fs) ==
    IF i > Len(calcs) THEN [calcs |-> calcs, fs |-> fs]
    ELSE IF "dos" \in DOMAIN calcs[i]
         THEN LET fs1 == Append(fs, <<"json", calcs[i].dos>>)
                  calc == DelField(SetField(calcs[i], "dos_fs_id", Len(fs1)),
                                   "dos")
              IN  PutDos([calcs EXCEPT ![i] = calc], i + 1, fs1)
         ELSE PutDos(calcs, i + 1, fs)

(* ---------------------------- _insert_doc ----------------------------- *)

\* the dos block and the timestamp run whatever find_one returned
ShouldWriteAlways(result, update_duplicates) == TRUE

\* if result is None or self._update_duplicates
ShouldWrite(result, update_duplicates) ==
    result = None \/ update_duplicates

\* if ('task_id' not in d) or (not d['task_id'])
NeedsTaskId(d) == ("task_id" \notin DOMAIN d) \/ d.task_id = 0

\* the stored task_id is taken only when the document brings none
UpdateTaskIdKeepsOwn(d, result) ==
    IF ("task_id" \notin DOMAIN d) \/ d.task_id = 0
    THEN SetField(d, "task_id", result.task_id)
    ELSE d

\* d['task_id'] = result['task_id'] on the update branch
UpdateTaskId(d, result) == SetField(d, "task_id", result.task_id)

SimulatedTaskId == 0

\* the dos loop: only with parse_dos and a 'calculations' field
DosStep(d, fs, parse_dos) ==
    IF parse_dos /\ "calculations" \in DOMAIN d
    THEN LET p == PutDos(d.calculations, 1, fs)
         IN  [d |-> SetField(d, "calculations", p.calcs), fs |-> p.fs]
    ELSE [d |-> d, fs |-> fs]

\* the whole of _insert_doc run with nothing in between: the database
\* after the call and the value returned
InsertDoc(c, cnt, fs, d, simulate, update_duplicates, parse_dos, today) ==
    IF simulate
    THEN [coll |-> c, counter |-> cnt, dos_fs |-> fs,
          ret |-> RetDoc(SetField(d, "task_id", SimulatedTaskId))]
    ELSE
    LET result == FindOne(c, d.dir_name)
    IN  IF ShouldWrite(result, update_duplicates)
        THEN LET p  == DosStep(d, fs, parse_dos)
                 d1 == SetField(p.d, "last_updated", today)
             IN  IF result = None
                 THEN LET cnt1 == IF NeedsTaskId(d1) /\ CounterCount(cnt) = 0
                                  THEN CounterInsert(cnt) ELSE cnt
                          d2   == IF NeedsTaskId(d1)
                                  THEN SetField(d1, "task_id",
                                                FindAndModify(cnt1).old.c)
                                  ELSE d1
                          cnt2 == IF NeedsTaskId(d1)
                                  THEN FindAndModify(cnt1).cnt ELSE cnt1
                      IN  [coll |-> CollInsert(c, d2), counter |-> cnt2,
                           dos_fs |-> p.fs, ret |-> RetTaskId(d2.task_id)]
                 ELSE IF update_duplicates
                 THEN LET d2 == UpdateTaskId(d1, result)
                      IN  [coll |-> CollUpdate(c, d2.dir_name, d2),
                           counter |-> cnt, dos_fs |-> p.fs,
                           ret |-> RetTaskId(d2.task_id)]
                 ELSE [coll |-> c, counter |-> cnt, dos_fs |-> p.fs,
                       ret |-> IF "task_id" \in DOMAIN d1
                               THEN RetTaskId(d1.task_id) ELSE RetFalse]
        ELSE [coll |-> c, counter |-> cnt, dos_fs |-> fs, ret |-> RetNone]

(* ------------------------------ actions ------------------------------- *)

NoCall == [n |-> 0]

IdleProc(calls) ==
    [pc |-> "idle", calls |-> calls, d |-> None, drone |-> None,
     result |-> None, cnt |-> 0, ret |-> RetNone]

IdleProcs == [p \in Procs |-> IdleProc(0)]

Init ==
    /\ coll = <<>>
    /\ counter = {}
    /\ dos_fs = <<>>
    /\ now = 0
    /\ ret = RetNone
    /\ last = NoCall
    /\ autoids = <<>>
    /\ procs = IdleProcs

\* one assimilate call run to its end: get_task_doc, then _insert_doc; an
\* exception (the document is None) makes the call return False
Assimilate(drone, dir) ==
    /\ now < MaxCalls
    /\ LET d == get_task_doc(dir.path, dir.kind, drone.parse_dos,
                             drone.additional_fields, dir.has_dos,
                             dir.new_tags)
           r == InsertDoc(coll, counter, dos_fs, d, drone.simulate,
                          drone.update_duplicates, drone.parse_dos, now + 1)
       IN  /\ now' = now + 1
           /\ last' = [n |-> now + 1, d |-> d, drone |-> drone,
                       result |-> IF d = None THEN None
                                  ELSE FindOne(coll, d.dir_name)]
           /\ IF d = None
              THEN /\ ret' = RetFalse
                   /\ UNCHANGED <<coll, counter, dos_fs, autoids>>
              ELSE /\ coll' = r.coll
                   /\ counter' = r.counter
                   /\ dos_fs' = r.dos_fs
                   /\ ret' = r.ret
                   \* history: the task_ids given to new documents that
                   \* brought none
                   /\ autoids' = IF /\ ~drone.simulate
                                    /\ NeedsTaskId(d)
                                    /\ Len(r.coll) > Len(coll)
                                 THEN Append(autoids, r.coll[Len(r.coll)].task_id)
                                 ELSE autoids
    /\ UNCHANGED procs

AssimilateAny == \E drone \in Drones, dir \in Dirs : Assimilate(drone, dir)

Next == AssimilateAny

Spec == Init /\ [][Next]_vars

(* ------------------- concurrent drones, step by step ------------------ *)

\* the drones and directories of the parallel run
ConcDrones == {dr \in Drones : ~dr.simulate /\ NeedsTaskId(dr.additional_fields)}

ConcDirs == {dir \in Dirs : dir.kind \in {"killed", "standard", "aflow"}}

\* a process enters _insert_doc with the document get_task_doc built
Start(p, drone, dir) ==
    /\ procs[p].pc = "idle"
    /\ procs[p].calls < MaxProcCalls
    /\ procs' = [procs EXCEPT ![p] =
                   [@ EXCEPT !.pc = "find_one", !.drone = drone,
                             !.d = get_task_doc(dir.path, dir.kind,
                                                drone.parse_dos,
                                                drone.additional_fields,
                                                dir.has_dos, dir.new_tags),
                             !.result = None, !.cnt = 0, !.ret = RetNone]]
    /\ UNCHANGED <<coll, counter, dos_fs, now, ret, last, autoids>>

\* result = coll.find_one(...), then the test on result and
\* update_duplicates
StepFindOne(p) ==
    /\ procs[p].pc = "find_one"
    /\ LET result == FindOne(coll, procs[p].d.dir_name)
       IN  procs' = [procs EXCEPT ![p] =
                       IF ShouldWrite(result, procs[p].drone.update_duplicates)
                       THEN [@ EXCEPT !.pc = "dos", !.result = result]
                       ELSE [@ EXCEPT !.pc = "done", !.result = result,
                                      !.ret = RetNone]]
    /\ UNCHANGED <<coll, counter, dos_fs, now, ret, last, autoids>>

\* the dos loop and d['last_updated'] = datetime.datetime.today()
StepDos(p) ==
    /\ procs[p].pc = "dos"
    /\ LET q  == DosStep(procs[p].d, dos_fs, procs[p].drone.parse_dos)
           d1 == SetField(q.d, "last_updated", now + 1)
       IN  /\ dos_fs' = q.fs
           /\ now' = now + 1
           /\ procs' = [procs EXCEPT ![p] =
                          [@ EXCEPT !.d = d1,
                                    !.pc = IF procs[p].result = None
                                           THEN IF NeedsTaskId(d1)
                                                THEN "count" ELSE "insert"
                                           ELSE "update"]]
    /\ UNCHANGED <<coll, counter, ret, last, autoids>>

\* db.counter.find({"_id": "taskid"}).count() == 0
StepCount(p) ==
    /\ procs[p].pc = "count"
    /\ procs' = [procs EXCEPT ![p] =
                   [@ EXCEPT !.cnt = CounterCount(counter),
                             !.pc = IF CounterCount(counter) = 0
                                    THEN "counter_insert"
                                    ELSE "find_and_modify"]]
    /\ UNCHANGED <<coll, counter, dos_fs, now, ret, last, autoids>>

\* db.counter.insert(...): _id is unique, so a second insert of "taskid"
\* raises DuplicateKeyError, which assimilate turns into False
StepCounterInsert(p) ==
    /\ procs[p].pc = "counter_insert"
    /\ IF CounterCount(counter) = 0
       THEN /\ counter' = CounterInsert(counter)
            /\ procs' = [procs EXCEPT ![p].pc = "find_and_modify"]
       ELSE /\ counter' = counter
            /\ procs' = [procs EXCEPT ![p] =
                           [@ EXCEPT !.pc = "done", !.ret = RetFalse]]
    /\ UNCHANGED <<coll, dos_fs, now, ret, last, autoids>>

\* d['task_id'] = db.counter.find_and_modify(...)['c']
StepFindAndModify(p) ==
    /\ procs[p].pc = "find_and_modify"
    /\ LET fam == FindAndModify(counter)
       IN  /\ counter' = fam.cnt
           /\ procs' = [procs EXCEPT ![p] =
                          [@ EXCEPT !.d = SetField(@, "task_id", fam.old.c),
                                    !.pc = "insert"]]
    /\ UNCHANGED <<coll, dos_fs, now, ret, last, autoids>>

\* coll.insert(d, safe=True); return d['task_id']
StepInsert(p) ==
    /\ procs[p].pc = "insert"
    /\ coll' = CollInsert(coll, procs[p].d)
    /\ procs' = [procs EXCEPT ![p] =
                   [@ EXCEPT !.pc = "done",
                             !.ret = RetTaskId(procs[p].d.task_id)]]
    /\ UNCHANGED <<counter, dos_fs, now, ret, last, autoids>>

\* d['task_id'] = result['task_id']; coll.update(...); return d['task_id']
StepUpdate(p) ==
    /\ procs[p].pc = "update"
    /\ LET d2 == UpdateTaskId(procs[p].d, procs[p].result)
       IN  /\ coll' = CollUpdate(coll, d2.dir_name, d2)
           /\ procs' = [procs EXCEPT ![p] =
                          [@ EXCEPT !.d = d2, !.pc = "done",
                                    !.ret = RetTaskId(d2.task_id)]]
    /\ UNCHANGED <<counter, dos_fs, now, ret, last, autoids>>

\* assimilate hands the value back to its caller; the process may take up
\* another directory
Return(p) ==
    /\ procs[p].pc = "done"
    /\ procs' = [procs EXCEPT ![p] = IdleProc(procs[p].calls + 1)]
    /\ UNCHANGED <<coll, counter, dos_fs, now, ret, last, autoids>>

StartAny == \E p \in Procs, drone \in ConcDrones, dir \in ConcDirs :
                Start(p, drone, dir)

FindOneAny == \E p \in Procs : StepFindOne(p)

DosAny == \E p \in Procs : StepDos(p)

CountAny == \E p \in Procs : StepCount(p)

CounterInsertAny == \E p \in Procs : StepCounterInsert(p)

FindAndModifyAny == \E p \in Procs : StepFindAndModify(p)

InsertAny == \E p \in Procs : StepInsert(p)

UpdateAny == \E p \in Procs : StepUpdate(p)

ReturnAny == \E p \in Procs : Return(p)

NextConc ==
    \/ StartAny
    \/ FindOneAny
    \/ DosAny
    \/ CountAny
    \/ CounterInsertAny
    \/ FindAndModifyAny
    \/ InsertAny
    \/ UpdateAny
    \/ ReturnAny

SpecConc == Init /\ [][NextConc]_vars

(* ------------------------------ claims -------------------------------- *)

\* the last call was a non-simulated assimilate whose get_task_doc built a
\* document
RealCall == last.n > 0 /\ last.d # None /\ ~last.drone.simulate

\* the stored document of a dir_name
Stored(c, dn) == c[Min(Matches(c, dn))]

\* C1: after any sequence of non-simulated calls made one at a time, the
\* collection holds at most one document per dir_name.
C1_OneDocPerDirName ==
    \A i, j \in 1..Len(coll) :
        coll[i].dir_name = coll[j].dir_name => i = j

\* C1 witness: a directory already stored was assimilated again under
\* another path spelling with update_duplicates, next to a second directory.
C1_Witness ==
    /\ RealCall
    /\ last.result # None
    /\ last.drone.update_duplicates
    /\ Len(coll) = 2

\* C2: the k-th new document that brought no task_id received task_id k,
\* and the counter stands one above the number handed out.
C2_SequentialTaskIds ==
    /\ \A k \in 1..Len(autoids) : autoids[k] = k
    /\ \A x \in counter : x.c = Len(autoids) + 1
    /\ Len(autoids) > 0 => CounterCount(counter) = 1

\* C2 witness: two task_ids were handed out and the last call met a
\* duplicate.
C2_Witness ==
    /\ Len(autoids) >= 2
    /\ RealCall
    /\ last.result # None

\* C3: with update_duplicates, after a call on a stored dir_name the stored
\* document has every field of the new document with the new value, and no
\* field of the old document alone remains, apart from _id and task_id.
C3_EntireDocReplaced ==
    (RealCall /\ last.drone.update_duplicates /\ last.result # None) =>
        LET doc == Stored(coll, last.d.dir_name)
        IN  /\ DOMAIN doc \subseteq
                  (DOMAIN last.d) \cup {"_id", "task_id", "last_updated"}
            /\ \A f \in (DOMAIN last.d)
                          \ {"task_id", "last_updated", "calculations"} :
                   f \in DOMAIN doc /\ doc[f] = last.d[f]
            /\ doc.last_updated = last.n
            /\ "calculations" \in DOMAIN last.d =>
                  /\ "calculations" \in DOMAIN doc
                  /\ Len(doc.calculations) = Len(last.d.calculations)
                  /\ \A i \in 1..Len(doc.calculations) :
                        doc.calculations[i].task = last.d.calculations[i].task

\* C4: without update_duplicates, a call on a stored dir_name leaves the
\* collection, the counter and dos_fs as they were.
C4_SkipChangesNothing ==
    [][(/\ last'.n = last.n + 1
        /\ last'.d # None
        /\ ~last'.drone.simulate
        /\ ~last'.drone.update_duplicates
        /\ Matches(coll, last'.d.dir_name) # {})
       => (coll' = coll /\ counter' = counter /\ dos_fs' = dos_fs)]_vars

\* C4 witness: a duplicate was skipped by a drone that parses dos, for a
\* document that carries dos data.
C4_Witness ==
    /\ RealCall
    /\ ~last.drone.update_duplicates
    /\ last.result # None
    /\ last.drone.parse_dos
    /\ "calculations" \in DOMAIN last.d
    /\ \E i \in 1..Len(last.d.calculations) :
          "dos" \in DOMAIN last.d.calculations[i]
    /\ ret = RetNone

\* C5: a stored dir_name keeps its task_id through every later call, and a
\* call on a stored dir_name does not advance the counter.
C5_TaskIdNeverChanges ==
    [][/\ \A i \in 1..Len(coll) :
             \A j \in Matches(coll', coll[i].dir_name) :
                 coll'[j].task_id = coll[i].task_id
       /\ \A i \in 1..Len(coll) : Matches(coll', coll[i].dir_name) # {}
       /\ (/\ last'.n = last.n + 1
           /\ last'.d # None
           /\ ~last'.drone.simulate
           /\ Matches(coll, last'.d.dir_name) # {}) => counter' = counter]_vars

\* C5 witness: a stored document was updated from a document that brought
\* a task_id of its own, different from the stored one.
C5_Witness ==
    /\ RealCall
    /\ last.drone.update_duplicates
    /\ last.result # None
    /\ "task_id" \in DOMAIN last.d
    /\ last.d.task_id \notin {0, last.result.task_id}
    /\ ret.kind = "task_id"

\* C6: every non-simulated assimilate call whose document was built returns
\* the task_id of the document stored under its dir_name after the call.
C6_ReturnsStoredTaskId ==
    RealCall =>
        /\ ret.kind = "task_id"
        /\ Matches(coll, last.d.dir_name) # {}
        /\ Stored(coll, last.d.dir_name).task_id = ret.v

\* a process has left _insert_doc
Done(p) == procs[p].pc = "done"

\* C7: with drones running _insert_doc concurrently, no two documents share
\* a dir_name, no two new documents share a task_id, and every call for a
\* new dir_name ends with its document stored.
C7_ConcurrentInsertsSafe ==
    /\ \A i, j \in 1..Len(coll) :
          coll[i].dir_name = coll[j].dir_name => i = j
    /\ \A i, j \in 1..Len(coll) :
          coll[i].task_id = coll[j].task_id => i = j
    /\ \A p \in Procs :
          (Done(p) /\ procs[p].result = None) =>
              Matches(coll, procs[p].d.dir_name) # {}

====
